---- MODULE Spec2Model ----
(***************************************************************************)
(* Model of garmin_mcp_server.py: seven tool handlers that read the        *)
(* credentials from the environment, log in to the provider, forward one   *)
(* call and wrap the reply.  Every invocation is a process with a program  *)
(* counter; the provider's replies and the wall clock are the environment. *)
(***************************************************************************)
EXTENDS Integers, Sequences, FiniteSets, TLC

\* ------------------------------------------------------------------ bounds
MaxCalls == 2          \* invocations that may be in flight together
MaxTicks == 1          \* midnights that may pass while the model runs
MaxLimit == 2          \* explicit limits 1..MaxLimit a caller may pass
ClockStart == 739922   \* proleptic ordinal of the first value of today()
DateSample == 738955   \* proleptic ordinal of a supplied date (2024-03-10)

\* ------------------------------------------------------- python's values
\* datetime.date.min.toordinal(): the first day a date object can hold
MinOrdinal == 1

NoneV == [t |-> "NoneType"]
Omitted == [t |-> "omitted"]
IntV(v) == [t |-> "int", v |-> v]
\* A string is its format and, when it spells a calendar day, that day:
\* "ext" is YYYY-MM-DD, "basic" is YYYYMMDD, "bad" spells no date, "empty" is "".
Str(fmt, ord) == [t |-> "str", fmt |-> fmt, ord |-> ord]
EmptyStr == Str("empty", 0)
BadStr == Str("bad", 0)
Date(ord) == [t |-> "date", ord |-> ord]
Exc(cls, msg) == [cls |-> cls, msg |-> msg]
Ok(v) == [ok |-> TRUE, val |-> v]
Err(e) == [ok |-> FALSE, exc |-> e]

\* truth value of an Optional[str]: None and "" are falsy
Truthy(v) == v # NoneV /\ v # EmptyStr

Calls == 1..MaxCalls
Ops == {"user_summary", "user_activities", "user_activity", "user_sleep",
        "user_heart_rate", "user_steps", "user_weight"}
DayOps == {"user_sleep", "user_heart_rate", "user_steps", "user_weight"}

VARIABLES
  env,          \* os.environ: GARMIN_USERNAME and GARMIN_PASSWORD
  acceptsBasic, \* whether the interpreter's date.fromisoformat takes YYYYMMDD
  today,        \* ordinal of date.today()
  pc,           \* pc[c]: where invocation c stands
  request,      \* request[c]: the operation and the arguments the caller gave
  args,         \* args[c]: the handler's parameters after defaults are bound
  clock,        \* clock[c]: the value of today() the handler read, 0 if none
  resolved,     \* resolved[c]: summary_date / start_date / sleep_date ...
  client,       \* client[c]: the handler's Garmin client
  trace,        \* trace[c]: the effects the handler has had, in order
  sent,         \* sent[c]: the arguments forwarded to the provider method
  fault,        \* fault[c]: the exception the provider client raised, if any
  result        \* result[c]: what the caller got

vars == <<env, acceptsBasic, today, pc, request, args, clock, resolved,
          client, trace, sent, fault, result>>

Pending == [kind |-> "pending"]
Return(v) == [kind |-> "return", value |-> v]
Raise(e) == [kind |-> "raise", exc |-> e]

\* ------------------------------------------------------------ datetime
ValueErrorMsg == "Invalid isoformat string"
OverflowMsg == "date value out of range"

fromisoformat(s) ==
  IF s.fmt = "ext" \/ (s.fmt = "basic" /\ acceptsBasic)
  THEN Ok(Date(s.ord))
  ELSE Err(Exc("ValueError", ValueErrorMsg))

isoformat(d) == Str("ext", d.ord)

\* d - timedelta(days=n)
minus(d, n) ==
  IF d.ord - n < MinOrdinal
  THEN Err(Exc("OverflowError", OverflowMsg))
  ELSE Ok(Date(d.ord - n))

\* ------------------------------------------------------------ the inputs
FailMsgs == {"timeout", "401 unauthorized"}
Payload == [t |-> "json"]
LoginReplies == {Ok(NoneV)} \cup {Err(Exc("GarminConnectAuthenticationError", m)) : m \in FailMsgs}
DataReplies == {Ok(Payload)} \cup {Err(Exc("GarminConnectConnectionError", m)) : m \in FailMsgs}

EnvValues == {NoneV, EmptyStr, Str("text", 0)}
DateArgs == {NoneV, EmptyStr, BadStr, Str("ext", MinOrdinal), Str("ext", DateSample),
             Str("basic", DateSample)}
LimitArgs == {Omitted, NoneV} \cup {IntV(n) : n \in 1..MaxLimit}
ActivityIds == {Str("id", 12345), Str("id", 67890)}

\* ------------------------------------------------------------ the handlers
CredMsg == "GARMIN_USERNAME and GARMIN_PASSWORD must be set in the .env file."
DefaultLimit == 10

getenv(name) == env[name]

str(e) == e.msg

\* an except clause that drops the description of the failure
except_Exception_fixed(e) == Exc("MCPException", "An error occurred")

\* except Exception as e: raise MCPException(str(e))
except_Exception(e) == Exc("MCPException", str(e))

\* the summary date shifted only when it is defaulted
summary_date_default_only(date, now) ==
  IF Truthy(date)
  THEN LET parsed == fromisoformat(date)
       IN  IF ~parsed.ok THEN parsed ELSE Ok(isoformat(parsed.val))
  ELSE LET shifted == minus(Date(now), 1)
       IN  IF ~shifted.ok THEN shifted ELSE Ok(isoformat(shifted.val))

\* (fromisoformat(date or today().isoformat()) - timedelta(days=1)).isoformat()
summary_date(date, now) ==
  LET parsed == fromisoformat(IF Truthy(date) THEN date ELSE isoformat(Date(now)))
  IN  IF ~parsed.ok THEN parsed
      ELSE LET shifted == minus(parsed.val, 1)
           IN  IF ~shifted.ok THEN shifted ELSE Ok(isoformat(shifted.val))

\* the start defaulted to yesterday, as the other handlers default
start_date_yesterday(start, now) ==
  IF Truthy(start) THEN fromisoformat(start) ELSE minus(Date(now), 1)

\* fromisoformat(start) if start else today() - timedelta(days=30)
start_date(start, now) ==
  IF Truthy(start) THEN fromisoformat(start) ELSE minus(Date(now), 30)

\* the day shifted whether supplied or not, as user_summary shifts it
day_date_always_shifted(date, now) ==
  LET parsed == fromisoformat(IF Truthy(date) THEN date ELSE isoformat(Date(now)))
  IN  IF ~parsed.ok THEN parsed ELSE minus(parsed.val, 1)

\* fromisoformat(date) if date else today() - timedelta(days=1)
day_date(date, now) ==
  IF Truthy(date) THEN fromisoformat(date) ELSE minus(Date(now), 1)

\* the local the handler computes from its date argument
Resolve(op, a, now) ==
  CASE op = "user_summary" -> summary_date(a.date, now)
    [] op = "user_activities" -> start_date(a.date, now)
    [] OTHER -> day_date(a.date, now)

\* the handler calls date.today() only when its date argument is falsy
ReadsClock(a) == ~Truthy(a.date)

Method(op) ==
  CASE op = "user_summary" -> "get_user_summary"
    [] op = "user_activities" -> "get_activities"
    [] op = "user_activity" -> "get_activity_details"
    [] op = "user_sleep" -> "get_sleep_data"
    [] op = "user_heart_rate" -> "get_heart_rates"
    [] op = "user_steps" -> "get_steps_data"
    [] OTHER -> "get_body_composition"

\* the arguments of the provider call
Forward(op, a, r) ==
  CASE op = "user_summary" -> <<r>>
    [] op = "user_activities" -> <<r, a.limit>>
    [] op = "user_activity" -> <<a.activity_id>>
    [] OTHER -> <<isoformat(r)>>

\* an envelope that echoes the caller's date instead of the resolved one
Envelope_echo_argument(op, a, r, payload) ==
  CASE op = "user_summary" -> [success |-> TRUE, date |-> a.date, summary |-> payload]
    [] op = "user_activities" -> [success |-> TRUE, activities |-> payload]
    [] op = "user_activity" ->
         [success |-> TRUE, activity_id |-> a.activity_id, activity |-> payload]
    [] op = "user_sleep" -> [success |-> TRUE, date |-> a.date, sleep |-> payload]
    [] op = "user_heart_rate" -> [success |-> TRUE, date |-> a.date, heart_rate |-> payload]
    [] op = "user_steps" -> [success |-> TRUE, date |-> a.date, steps |-> payload]
    [] OTHER -> [success |-> TRUE, date |-> a.date, weight |-> payload]

\* the dict the handler returns
Envelope(op, a, r, payload) ==
  CASE op = "user_summary" -> [success |-> TRUE, date |-> r, summary |-> payload]
    [] op = "user_activities" -> [success |-> TRUE, activities |-> payload]
    [] op = "user_activity" ->
         [success |-> TRUE, activity_id |-> a.activity_id, activity |-> payload]
    [] op = "user_sleep" -> [success |-> TRUE, date |-> isoformat(r), sleep |-> payload]
    [] op = "user_heart_rate" ->
         [success |-> TRUE, date |-> isoformat(r), heart_rate |-> payload]
    [] op = "user_steps" -> [success |-> TRUE, date |-> isoformat(r), steps |-> payload]
    [] OTHER -> [success |-> TRUE, date |-> isoformat(r), weight |-> payload]

\* every handler resolving its argument before it authenticates
Statements_resolve_first(op) ==
  IF op = "user_activity" THEN <<"auth", "login", "call">>
  ELSE <<"resolve", "auth", "login", "call">>

\* the statements of each handler, in the order they are written
Statements(op) ==
  CASE op = "user_summary" -> <<"resolve", "auth", "login", "call">>
    [] op = "user_activity" -> <<"auth", "login", "call">>
    [] OTHER -> <<"auth", "login", "resolve", "call">>

FirstStep(op) == Statements(op)[1]
\* the statement that follows step, which is not the last
After(op, step) ==
  LET i == CHOOSE k \in DOMAIN Statements(op) : Statements(op)[k] = step
  IN  Statements(op)[i + 1]

\* user_summary computes summary_date before its try block
InTry(op, step) == ~(op = "user_summary" /\ step = "resolve")

\* an exception e leaves the handler from the statement at step
Propagate(op, step, e) == IF InTry(op, step) THEN except_Exception(e) ELSE e

\* ------------------------------------------------------------ the state
NoRequest == [op |-> "none", date |-> NoneV, limit |-> NoneV, activity_id |-> NoneV]
NoArgs == [date |-> NoneV, limit |-> NoneV, activity_id |-> NoneV]

Start(envs, basics) ==
  /\ env \in envs
  /\ acceptsBasic \in basics
  /\ today = ClockStart
  /\ pc = [c \in Calls |-> "idle"]
  /\ request = [c \in Calls |-> NoRequest]
  /\ args = [c \in Calls |-> NoArgs]
  /\ clock = [c \in Calls |-> 0]
  /\ resolved = [c \in Calls |-> NoneV]
  /\ client = [c \in Calls |-> "none"]
  /\ trace = [c \in Calls |-> <<>>]
  /\ sent = [c \in Calls |-> <<>>]
  /\ fault = [c \in Calls |-> NoneV]
  /\ result = [c \in Calls |-> Pending]

Init == Start([{"GARMIN_USERNAME", "GARMIN_PASSWORD"} -> EnvValues], BOOLEAN)

\* the framework calls a handler: the parameters are bound, defaults applied
Bind(c, op, date, limit, id) ==
  /\ request' = [request EXCEPT ![c] =
                   [op |-> op, date |-> date, limit |-> limit, activity_id |-> id]]
  /\ args' = [args EXCEPT ![c] =
                [date |-> date,
                 limit |-> IF limit = Omitted THEN IntV(DefaultLimit) ELSE limit,
                 activity_id |-> id]]
  /\ pc' = [pc EXCEPT ![c] = FirstStep(op)]
  /\ UNCHANGED <<env, acceptsBasic, today, clock, resolved, client, trace, sent, fault, result>>

user_summary(c, dates) ==
  \E d \in dates : pc[c] = "idle" /\ Bind(c, "user_summary", d, NoneV, NoneV)

\* the date parameter of user_activities is called start
user_activities(c, dates, limits) ==
  \E d \in dates, l \in limits : pc[c] = "idle" /\ Bind(c, "user_activities", d, l, NoneV)

user_activity(c, ids) ==
  \E a \in ids : pc[c] = "idle" /\ Bind(c, "user_activity", NoneV, NoneV, a)

user_sleep(c, dates) ==
  \E d \in dates : pc[c] = "idle" /\ Bind(c, "user_sleep", d, NoneV, NoneV)

user_heart_rate(c, dates) ==
  \E d \in dates : pc[c] = "idle" /\ Bind(c, "user_heart_rate", d, NoneV, NoneV)

user_steps(c, dates) ==
  \E d \in dates : pc[c] = "idle" /\ Bind(c, "user_steps", d, NoneV, NoneV)

user_weight(c, dates) ==
  \E d \in dates : pc[c] = "idle" /\ Bind(c, "user_weight", d, NoneV, NoneV)

\* the handler ends with exception e raised by the statement at step
Fail(c, step, e) ==
  /\ result' = [result EXCEPT ![c] = Raise(Propagate(request[c].op, step, e))]
  /\ pc' = [pc EXCEPT ![c] = "done"]

\* the statement that computes the date local
resolve_date(c) ==
  /\ pc[c] = "resolve"
  /\ LET op == request[c].op
         r == Resolve(op, args[c], today)
     IN  /\ trace' = [trace EXCEPT ![c] = Append(@, "resolve")]
         /\ clock' = [clock EXCEPT ![c] = IF ReadsClock(args[c]) THEN today ELSE @]
         /\ IF r.ok
            THEN /\ resolved' = [resolved EXCEPT ![c] = r.val]
                 /\ pc' = [pc EXCEPT ![c] = After(op, "resolve")]
                 /\ UNCHANGED result
            ELSE /\ Fail(c, "resolve", r.exc)
                 /\ UNCHANGED resolved
  /\ UNCHANGED <<env, acceptsBasic, today, request, args, client, sent, fault>>

\* a client kept in a module global and reused once any invocation logged in
get_garmin_client_cached(c) ==
  /\ pc[c] = "auth"
  /\ trace' = [trace EXCEPT ![c] = Append(@, "getenv")]
  /\ LET username == getenv("GARMIN_USERNAME")
         password == getenv("GARMIN_PASSWORD")
     IN  IF ~Truthy(username) \/ ~Truthy(password)
         THEN /\ Fail(c, "auth", Exc("MCPException", CredMsg))
              /\ UNCHANGED client
         ELSE IF \E d \in Calls : client[d] = "logged_in"
         THEN /\ client' = [client EXCEPT ![c] = "logged_in"]
              /\ pc' = [pc EXCEPT ![c] = After(request[c].op, "login")]
              /\ UNCHANGED result
         ELSE /\ client' = [client EXCEPT ![c] = "created"]
              /\ pc' = [pc EXCEPT ![c] = "login"]
              /\ UNCHANGED result
  /\ UNCHANGED <<env, acceptsBasic, today, request, args, clock, resolved, sent, fault>>

\* get_garmin_client up to Garmin(username, password)
get_garmin_client(c) ==
  /\ pc[c] = "auth"
  /\ trace' = [trace EXCEPT ![c] = Append(@, "getenv")]
  /\ LET username == getenv("GARMIN_USERNAME")
         password == getenv("GARMIN_PASSWORD")
     IN  IF ~Truthy(username) \/ ~Truthy(password)
         THEN /\ Fail(c, "auth", Exc("MCPException", CredMsg))
              /\ UNCHANGED client
         ELSE /\ client' = [client EXCEPT ![c] = "created"]
              /\ pc' = [pc EXCEPT ![c] = "login"]
              /\ UNCHANGED result
  /\ UNCHANGED <<env, acceptsBasic, today, request, args, clock, resolved, sent, fault>>

\* a login that is tried a second time when the first handshake fails
client_login_retry(c, replies) ==
  /\ pc[c] = "login"
  /\ trace' = [trace EXCEPT ![c] = Append(@, "login")]
  /\ \E reply \in replies :
       IF reply.ok
       THEN /\ client' = [client EXCEPT ![c] = "logged_in"]
            /\ pc' = [pc EXCEPT ![c] = After(request[c].op, "login")]
            /\ UNCHANGED <<result, fault>>
       ELSE IF \E i \in DOMAIN trace[c] : trace[c][i] = "login"
       THEN /\ Fail(c, "login", reply.exc)
            /\ fault' = [fault EXCEPT ![c] = reply.exc]
            /\ UNCHANGED client
       ELSE UNCHANGED <<pc, client, result, fault>>
  /\ UNCHANGED <<env, acceptsBasic, today, request, args, clock, resolved, sent>>

\* client.login(): the handshake with the provider
client_login(c, replies) ==
  /\ pc[c] = "login"
  /\ trace' = [trace EXCEPT ![c] = Append(@, "login")]
  /\ \E reply \in replies :
       IF reply.ok
       THEN /\ client' = [client EXCEPT ![c] = "logged_in"]
            /\ pc' = [pc EXCEPT ![c] = After(request[c].op, "login")]
            /\ UNCHANGED <<result, fault>>
       ELSE /\ Fail(c, "login", reply.exc)
            /\ fault' = [fault EXCEPT ![c] = reply.exc]
            /\ UNCHANGED client
  /\ UNCHANGED <<env, acceptsBasic, today, request, args, clock, resolved, sent>>

\* the provider method, then the return of the envelope
provider_call(c, replies) ==
  /\ pc[c] = "call"
  /\ LET op == request[c].op
     IN  /\ trace' = [trace EXCEPT ![c] = Append(@, Method(op))]
         /\ sent' = [sent EXCEPT ![c] = Forward(op, args[c], resolved[c])]
         /\ \E reply \in replies :
              IF reply.ok
              THEN /\ result' = [result EXCEPT ![c] =
                                   Return(Envelope(op, args[c], resolved[c], reply.val))]
                   /\ pc' = [pc EXCEPT ![c] = "done"]
                   /\ UNCHANGED fault
              ELSE /\ Fail(c, "call", reply.exc)
                   /\ fault' = [fault EXCEPT ![c] = reply.exc]
  /\ UNCHANGED <<env, acceptsBasic, today, request, args, clock, resolved, client>>

\* midnight passes
Tick ==
  /\ today < ClockStart + MaxTicks
  /\ today' = today + 1
  /\ UNCHANGED <<env, acceptsBasic, pc, request, args, clock, resolved, client,
                 trace, sent, fault, result>>

\* one invocation, every argument a caller can pass
Solo == {1}
Next ==
  \/ \E c \in Solo : user_summary(c, DateArgs)
  \/ \E c \in Solo : user_activities(c, DateArgs, LimitArgs)
  \/ \E c \in Solo : user_activity(c, ActivityIds)
  \/ \E c \in Solo : user_sleep(c, DateArgs)
  \/ \E c \in Solo : user_heart_rate(c, DateArgs)
  \/ \E c \in Solo : user_steps(c, DateArgs)
  \/ \E c \in Solo : user_weight(c, DateArgs)
  \/ \E c \in Solo : resolve_date(c)
  \/ \E c \in Solo : get_garmin_client(c)
  \/ \E c \in Solo : client_login(c, LoginReplies)
  \/ \E c \in Solo : provider_call(c, DataReplies)
  \/ Tick

Spec == Init /\ [][Next]_vars

\* several invocations in flight, their statements interleaved
ConcEnvs == {[GARMIN_USERNAME |-> u, GARMIN_PASSWORD |-> Str("text", 0)] :
               u \in {NoneV, Str("text", 0)}}
ConcLogin == {r \in LoginReplies : r.ok \/ r.exc.msg = "401 unauthorized"}
ConcData == {r \in DataReplies : r.ok \/ r.exc.msg = "timeout"}
ConcDates == {NoneV, Str("ext", DateSample)}
\* the four day handlers share one date statement: here they take the default
ConcDayDates == {NoneV}
ConcInit == Start(ConcEnvs, {TRUE})
ConcNext ==
  \/ \E c \in Calls : user_summary(c, ConcDates)
  \/ \E c \in Calls : user_activities(c, ConcDates, {Omitted})
  \/ \E c \in Calls : user_activity(c, {Str("id", 12345)})
  \/ \E c \in Calls : user_sleep(c, ConcDayDates)
  \/ \E c \in Calls : user_heart_rate(c, ConcDayDates)
  \/ \E c \in Calls : user_steps(c, ConcDayDates)
  \/ \E c \in Calls : user_weight(c, ConcDayDates)
  \/ \E c \in Calls : resolve_date(c)
  \/ \E c \in Calls : get_garmin_client(c)
  \/ \E c \in Calls : client_login(c, ConcLogin)
  \/ \E c \in Calls : provider_call(c, ConcData)

ConcSpec == ConcInit /\ [][ConcNext]_vars

\* ------------------------------------------------------------ properties
Done(c) == pc[c] = "done"
Started(c) == pc[c] # "idle"
CredsMissing == ~Truthy(env.GARMIN_USERNAME) \/ ~Truthy(env.GARMIN_PASSWORD)
\* the string spells a calendar date the interpreter parses
WellFormed(s) == s.fmt = "ext" \/ (s.fmt = "basic" /\ acceptsBasic)
Absent(v) == v = NoneV
DateOps == Ops \ {"user_activity"}
Methods == {Method(o) : o \in Ops}
NetworkEvents == {"login"} \cup Methods
Count(seq, S) == Cardinality({i \in DOMAIN seq : seq[i] \in S})
ConfigurationError == Raise(Exc("MCPException", CredMsg))
IsOperationError(r) == r.kind = "raise" /\ r.exc.cls = "MCPException"

\* C1: with a credential missing or empty and the date absent or
\* well-formed, every operation ends in the configuration error and the
\* invocation performs no login and no provider call at any point.
C1_ConfigErrorBeforeNetwork ==
  \A c \in Calls :
    (Started(c) /\ CredsMissing
       /\ (Absent(request[c].date) \/ WellFormed(request[c].date)))
    => /\ Count(trace[c], NetworkEvents) = 0
       /\ Done(c) => result[c] = ConfigurationError

\* C2: when the login handshake or the provider call fails with description
\* m, the invocation returns no envelope and raises one MCPException whose
\* message is m, whichever operation it is.
C2_ProviderFailureIsOperationError ==
  \A c \in Calls :
    (Done(c) /\ fault[c] # NoneV)
    => /\ IsOperationError(result[c])
       /\ result[c].exc.msg = fault[c].msg
       /\ Count(trace[c], Methods) <= 1

C2_Witness ==
  \E c \in Calls :
    /\ Done(c) /\ fault[c] # NoneV /\ fault[c].msg = "timeout"
    /\ request[c].op = "user_activities"
    /\ Count(trace[c], Methods) = 1

\* C3: in every date-bearing operation a supplied, non-empty date string
\* that does not parse makes the invocation fail with an MCPException and
\* with no other kind of error.
C3_MalformedDateIsOperationError ==
  \A c \in Calls :
    (Done(c) /\ request[c].op \in DateOps
       /\ Truthy(request[c].date) /\ ~WellFormed(request[c].date))
    => IsOperationError(result[c])

\* C4: user_sleep, user_heart_rate, user_steps and user_weight forward
\* the day before the today() they read when the date is absent, and the
\* supplied day itself, unshifted, when a well-formed date is supplied.
C4_DayOpsForwardedDate ==
  \A c \in Calls :
    (request[c].op \in DayOps /\ sent[c] # <<>>)
    => /\ Absent(request[c].date) => sent[c] = <<Str("ext", clock[c] - 1)>>
       /\ (~Absent(request[c].date) /\ WellFormed(request[c].date))
            => sent[c] = <<Str("ext", request[c].date.ord)>>

C4_Witness ==
  \E c \in Calls :
    /\ request[c].op = "user_heart_rate" /\ Done(c)
    /\ request[c].date = Str("basic", DateSample)
    /\ sent[c] = <<Str("ext", DateSample)>>

C6_ActivitiesForwarded ==
  \A c \in Calls :
    (request[c].op = "user_activities" /\ sent[c] # <<>>)
    => /\ Len(sent[c]) = 2
       /\ Absent(request[c].date) => sent[c][1] = Date(clock[c] - 30)
       /\ (~Absent(request[c].date) /\ WellFormed(request[c].date))
            => sent[c][1] = Date(request[c].date.ord)
       /\ sent[c][2] = IF request[c].limit = Omitted THEN IntV(10) ELSE request[c].limit

C6_Witness ==
  \E c \in Calls :
    /\ request[c].op = "user_activities" /\ Done(c)
    /\ Absent(request[c].date) /\ request[c].limit = Omitted
    /\ clock[c] = ClockStart + 1
    /\ sent[c] = <<Date(ClockStart - 29), IntV(10)>>

\* C7: every returned envelope has success true and echoes the value that
\* this invocation forwarded to the provider: the caller's activity_id,
\* unchanged, for user_activity, and the forwarded date string for every
\* operation whose envelope has a date.
C7_EnvelopeEchoesForwarded ==
  \A c \in Calls :
    result[c].kind = "return"
    => /\ result[c].value.success = TRUE
       /\ request[c].op = "user_activity"
            => /\ sent[c] = <<request[c].activity_id>>
               /\ result[c].value.activity_id = request[c].activity_id
       /\ request[c].op \in DayOps \cup {"user_summary"}
            => <<result[c].value.date>> = sent[c]

C7_Witness ==
  \E c \in Calls :
    /\ result[c].kind = "return" /\ request[c].op = "user_activity"
    /\ result[c].value.activity_id = Str("id", 12345)

\* the whole handler run by itself: what it returns or raises, what it
\* forwards and the effects it has, given the provider's replies lr and dr
\* and the value now of today()
Alone(req, lr, dr, now) ==
  LET op == req.op
      a == [date |-> req.date,
            limit |-> IF req.limit = Omitted THEN IntV(DefaultLimit) ELSE req.limit,
            activity_id |-> req.activity_id]
      r == Resolve(op, a, now)
      out(res, fwd, tr) == [result |-> res, sent |-> fwd, trace |-> tr]
      missing == ~Truthy(getenv("GARMIN_USERNAME")) \/ ~Truthy(getenv("GARMIN_PASSWORD"))
      credErr == Raise(except_Exception(Exc("MCPException", CredMsg)))
      call(tr, val) ==
        IF dr.ok
        THEN out(Return(Envelope(op, a, val, dr.val)), Forward(op, a, val),
                 Append(tr, Method(op)))
        ELSE out(Raise(except_Exception(dr.exc)), Forward(op, a, val),
                 Append(tr, Method(op)))
  IN  IF op = "user_summary"
      THEN IF ~r.ok THEN out(Raise(r.exc), <<>>, <<"resolve">>)
           ELSE IF missing THEN out(credErr, <<>>, <<"resolve", "getenv">>)
           ELSE IF ~lr.ok
                THEN out(Raise(except_Exception(lr.exc)), <<>>,
                         <<"resolve", "getenv", "login">>)
           ELSE call(<<"resolve", "getenv", "login">>, r.val)
      ELSE IF missing THEN out(credErr, <<>>, <<"getenv">>)
           ELSE IF ~lr.ok
                THEN out(Raise(except_Exception(lr.exc)), <<>>, <<"getenv", "login">>)
           ELSE IF op = "user_activity" THEN call(<<"getenv", "login">>, NoneV)
           ELSE IF ~r.ok
                THEN out(Raise(except_Exception(r.exc)), <<>>,
                         <<"getenv", "login", "resolve">>)
           ELSE call(<<"getenv", "login", "resolve">>, r.val)

\* C8: under every interleaving of the invocations in flight, what each
\* finished invocation returned or raised, what it forwarded and the
\* effects it had are those of that invocation run alone on its own
\* arguments, for some replies of the provider.
C8_ConcurrentCallsIndependent ==
  \A c \in Calls :
    Done(c) =>
      \E lr \in LoginReplies, dr \in DataReplies :
        Alone(request[c], lr, dr, clock[c])
          = [result |-> result[c], sent |-> sent[c], trace |-> trace[c]]

C8_Witness ==
  \E c, d \in Calls :
    /\ c # d /\ Done(c) /\ result[c].kind = "return"
    /\ request[c].op = "user_summary" /\ request[d].op = "user_steps"
    /\ pc[d] = "call" /\ client[d] = "logged_in"

IsPrefix(s, t) == Len(s) <= Len(t) /\ \A i \in DOMAIN s : s[i] = t[i]
AuthEvents == {"getenv", "login"}

\* C9 as stated: in every operation the argument is resolved before the
\* credentials are read and the login is made, and those precede the
\* provider method.
C9_ResolveBeforeAuthenticate ==
  \A c \in Calls : \A i, j \in DOMAIN trace[c] :
    /\ (trace[c][i] = "resolve" /\ trace[c][j] \in AuthEvents) => i < j
    /\ (trace[c][i] \in AuthEvents /\ trace[c][j] \in Methods) => i < j

\* C9 amended: user_summary resolves its date, then reads the credentials,
\* logs in and calls the provider; user_activities, user_sleep,
\* user_heart_rate, user_steps and user_weight read the credentials and log
\* in first, then resolve the date, then call the provider; user_activity
\* resolves nothing.  So outside user_summary a missing credential is
\* reported before the date is looked at.
C9_StatementOrder ==
  \A c \in Calls :
    Started(c) =>
      LET op == request[c].op
          order == CASE op = "user_summary" -> <<"resolve", "getenv", "login", Method(op)>>
                     [] op = "user_activity" -> <<"getenv", "login", Method(op)>>
                     [] OTHER -> <<"getenv", "login", "resolve", Method(op)>>
      IN  /\ IsPrefix(trace[c], order)
          /\ (Done(c) /\ CredsMissing /\ op # "user_summary")
               => result[c] = ConfigurationError /\ Count(trace[c], {"resolve"}) = 0

C9_Witness ==
  \E c \in Calls :
    /\ request[c].op = "user_sleep" /\ request[c].date = BadStr /\ Done(c)
    /\ trace[c] = <<"getenv", "login", "resolve">>
    /\ result[c] = Raise(Exc("MCPException", ValueErrorMsg))

\* the logins the invocations of S made between them
RECURSIVE Logins(_)
Logins(S) ==
  IF S = {} THEN 0
  ELSE LET c == CHOOSE x \in S : TRUE
       IN  Count(trace[c], {"login"}) + Logins(S \ {c})

\* C10: an invocation makes at most one login and at most one provider
\* call, exactly one of each when it returns an envelope, the provider call
\* only after its own login succeeded, and repeats no step; the invocations
\* that returned made as many logins as there are of them.
C10_OneLoginOneCallNoRetry ==
  /\ \A c \in Calls :
       /\ Count(trace[c], {"login"}) <= 1
       /\ Count(trace[c], Methods) <= 1
       /\ \A i, j \in DOMAIN trace[c] : trace[c][i] = trace[c][j] => i = j
       /\ result[c].kind = "return"
            => Count(trace[c], {"login"}) = 1 /\ Count(trace[c], Methods) = 1
       /\ \A j \in DOMAIN trace[c] :
            trace[c][j] \in Methods
            => /\ \E i \in 1..(j - 1) : trace[c][i] = "login"
               /\ client[c] = "logged_in"
       /\ Done(c) => Len(trace[c]) <= 4
  /\ LET returned == {c \in Calls : result[c].kind = "return"}
     IN  Logins(returned) = Cardinality(returned)

C10_Witness ==
  /\ \A c \in Calls : result[c].kind = "return"
  /\ Cardinality({c \in Calls : Count(trace[c], {"login"}) = 1}) = MaxCalls

====
